---- MODULE Spec2Model ----
(***************************************************************************)
(* SimpleAsyncReader (src/src/main.rs): the adapter that turns the         *)
(* ownership-passing future `simple_read` into futures::io::AsyncRead.     *)
(* One consumer calls poll_read; every call runs to its end (a result or a *)
(* panic) before the next one starts.                                      *)
(* The second part is the program around it: main, which spawns one task   *)
(* per file and awaits them all, and hash_file, the loop of each task.     *)
(***************************************************************************)
EXTENDS Integers, Sequences, FiniteSets

\* ------------------------------------------------------------------ bounds
MaxData == 3        \* longest source content
MaxBuf == 2         \* longest output buffer a caller passes
MaxErrors == 1      \* failures the source may report
PendCap == 2        \* the per-cycle Pending count saturates here
NumFiles == 2       \* files named on the command line
BufLen == 2         \* length of hash_file's read buffer

\* ------------------------------------------------------------ byte values
\* The i-th byte of the source: 0xAA, 0xBB, 0xCC, 0xDD, ... (all distinct).
SourceByte(i) == (170 + 17 * (i - 1)) % 256

Stream(k) == [i \in 1..k |-> SourceByte(i)]

\* Content of a caller buffer before the call (hash_file: vec![0u8; ..]).
CallerBuf(len) == [i \in 1..len |-> 0]

\* Values a byte of Vec storage may hold after set_len exposes it
\* without initialising it.
UninitBytes == {0, 85}

IoErrors == {"Interrupted", "Other"}

Min(a, b) == IF a < b THEN a ELSE b

VARIABLES
    data,          \* the byte source's whole content
    pos,           \* bytes the source has handed out so far
    errBudget,     \* failures the source may still report
    state,         \* tag of SimpleAsyncReader.state
    owner,         \* who holds (inner, internal_buf): "adapter", "future", "none"
    fut,           \* the boxed future stored in State::Pending
    ready,         \* the wait the future is parked on has completed
    mem,           \* storage of internal_buf (index 1..capacity)
    ilen,          \* internal_buf.len()
    buf,           \* the caller's buffer of the last call, after the call
    buf0,          \* the same buffer before the call
    result,        \* what the last poll_read call did
    found,         \* the state the last call swapped out
    prevKind,      \* result kind of the call before the last one
    created,       \* futures created by the last call
    opsInCycle,    \* futures created since the current cycle began
    readsInCycle,  \* inner.read calls issued since the current cycle began
    pendings,      \* Pending results of the current cycle (saturating)
    afterErr,      \* the current cycle began right after a Ready(Err)
    req,           \* buf.len() of the call that began the current cycle
    zeroPoll,      \* some call of the current cycle passed an empty buffer
    got,           \* what the future handed to the last call (NoRead: nothing)
    delivered,     \* all bytes copied to the caller by Ready(Ok(n)) results
    dropped,       \* "no", or the state the adapter held when it was dropped
    tasks,         \* the spawned hash_file tasks, one record per file
    mainTask,      \* where main is: its loops' progress and its result
    stdout         \* the lines printed so far

adapterVars == <<data, pos, errBudget, state, owner, fut, ready, mem, ilen, buf, buf0,
          result, found, prevKind, created, opsInCycle, readsInCycle, pendings,
          afterErr, req, zeroPoll, got, delivered, dropped>>

progVars == <<tasks, mainTask, stdout>>

vars == <<adapterVars, progVars>>

NoFut == [stage |-> "none", req |-> 0]

NoRead == [ok |-> TRUE, n |-> 0, err |-> "skipped"]

NoResult == [kind |-> "None", n |-> 0, err |-> "none"]

\* ------------------------------------------------------------- the source
\* What one read of the source into a buffer of `want` bytes may return:
\* Ok(0) for an empty buffer or at end of data, otherwise Ok(n) with
\* 1 <= n <= want bytes, or an error.
ReadOutcomes(want, p, d, budget) ==
    LET avail == Min(want, Len(d) - p)
    IN  { [ok |-> TRUE, n |-> n, err |-> "none"] :
              n \in (IF avail = 0 THEN {0} ELSE 1..avail) }
        \cup (IF budget > 0
              THEN { [ok |-> FALSE, n |-> 0, err |-> e] : e \in IoErrors }
              ELSE {})

\* The read stores its n bytes at the front of the buffer it was given.
ReadInto(m, d, p, n) ==
    [i \in 1..Len(m) |-> IF i <= n THEN d[p + i] ELSE m[i]]

\* ------------------------------------------------------------- simple_read
\* One poll of the future `async move { inner.simple_read(..).await; .. }`:
\* the stage it is at afterwards.  `rdy`: the wait it is parked on is over;
\* `now`: the read it issues after the delay completes at once.
simple_read(stage, rdy, now) ==
    IF ~rdy THEN stage
    ELSE IF stage = "delay" THEN (IF now THEN "done" ELSE "read")
    ELSE "done"

\* ---------------------------------------------------------------- poll_read
\* internal_buf.clear(); reserve(len); set_len(len): the storage keeps what
\* it held, cells beyond the old capacity hold unspecified bytes.
Resize(m, len, g) ==
    [i \in 1..(IF Len(m) < len THEN len ELSE Len(m)) |->
        IF i <= Len(m) THEN m[i] ELSE g]

\* An Idle arm that sizes internal_buf one byte too long.
SizeOneTooLong(taken, m, l, len, g) ==
    IF taken = "Idle"
    THEN [mem |-> Resize(m, len + 1, g), ilen |-> len + 1]
    ELSE [mem |-> m, ilen |-> l]

\* A call that sizes internal_buf to its own buffer whatever state it finds.
SizeOnEveryCall(taken, m, l, len, g) ==
    [mem |-> Resize(m, len, g), ilen |-> len]

\* The Idle arm sizes internal_buf to the caller's buffer; the Pending arm
\* leaves the buffer inside the future alone.
SizeInternalBuf(taken, m, l, len, g) ==
    IF taken = "Idle"
    THEN [mem |-> Resize(m, len, g), ilen |-> len]
    ELSE [mem |-> m, ilen |-> l]

\* Box::pin(async move { inner.simple_read(&mut internal_buf[..]).await .. })
NewFuture(len) == [stage |-> "delay", req |-> len]

\* A Pending arm that starts the read over instead of polling the stored one.
RestartFuture(taken, f, l) == [fut |-> NewFuture(l), made |-> 1]

\* match state { Idle(..) => a new future over internal_buf[..], whose
\* length is l; Pending(fut) => fut }
TakeFuture(taken, f, l) ==
    IF taken = "Idle"
    THEN [fut |-> NewFuture(l), made |-> 1]
    ELSE [fut |-> f, made |-> 0]

\* let dst = &mut buf[..n]: in range only when n <= buf.len()
SliceInRange(n, len) == n <= len

\* A copy that fills dst back to front.
CopyReversed(b, m, n) ==
    [i \in 1..Len(b) |-> IF i <= n THEN m[n + 1 - i] ELSE b[i]]

\* A copy in the wrong direction: the caller's buffer is the source.
CopySwapped(b, m, n) == b

\* A copy that runs on past n and smears the last byte over the rest of dst.
CopyPastN(b, m, n) ==
    [i \in 1..Len(b) |-> IF i <= n THEN m[i] ELSE IF n > 0 THEN m[n] ELSE b[i]]

\* dst.copy_from_slice(&internal_buf[..]) after set_len(n)
CopyFromSlice(b, m, n) ==
    [i \in 1..Len(b) |-> IF i <= n THEN m[i] ELSE b[i]]

\* An error arm that forgets set_len(0): the length stays as requested.
SetLenKeptOnErr(r, l) == IF r.ok THEN r.n ELSE l

\* A Ready arm without set_len: the length stays as requested.
SetLenRequested(r, l) == l

\* internal_buf.set_len(..) on completion: n after Ok(n), 0 after Err
SetLen(r, l) == IF r.ok THEN r.n ELSE 0

\* A Pending arm that forgets to put the future back.
StoreNothing(f) == [state |-> "Transitional", owner |-> "none", fut |-> NoFut]

\* *proj.state = State::Pending(fut)
StorePending(f) == [state |-> "Pending", owner |-> "future", fut |-> f]

\* A Ready arm that starts the next read at once (read-ahead).
StoreReadAhead(r, len) ==
    [state |-> "Pending", owner |-> "future", fut |-> NewFuture(len)]

\* A Ready arm that gives the reader back only after a success.
StoreIdleOnOkOnly(r, len) ==
    IF r.ok
    THEN [state |-> "Idle", owner |-> "adapter", fut |-> NoFut]
    ELSE [state |-> "Transitional", owner |-> "none", fut |-> NoFut]

\* *proj.state = State::Idle(inner, internal_buf)
StoreIdle(r, len) == [state |-> "Idle", owner |-> "adapter", fut |-> NoFut]

\* Poll::Ready(result)
ReadyResult(r) ==
    [kind |-> IF r.ok THEN "Ok" ELSE "Err", n |-> r.n, err |-> r.err]

PanicResult == [kind |-> "Panic", n |-> 0, err |-> "none"]

Bump(c) == Min(c + 1, PendCap)

TypeOK ==
    /\ data \in {Stream(k) : k \in 0..MaxData}
    /\ pos \in 0..Len(data)
    /\ errBudget \in 0..MaxErrors
    /\ state \in {"Idle", "Pending", "Transitional", "Dropped"}
    /\ dropped \in {"no", "Idle", "Pending", "Transitional"}
    /\ owner \in {"adapter", "future", "none"}
    /\ fut.stage \in {"none", "delay", "read"}
    /\ fut.req \in 0..MaxBuf
    /\ ilen \in 0..MaxBuf
    /\ Len(mem) <= MaxBuf
    /\ ready \in BOOLEAN
    /\ afterErr \in BOOLEAN
    /\ req \in 0..MaxBuf
    /\ zeroPoll \in BOOLEAN
    /\ result.kind \in {"None", "Pending", "Ok", "Err", "Panic"}
    /\ pendings \in 0..PendCap

\* A fresh adapter: State::Idle(file, Default::default()) (hash_file).
Start(d, budget) ==
    /\ data = d
    /\ pos = 0
    /\ errBudget = budget
    /\ state = "Idle"
    /\ owner = "adapter"
    /\ fut = NoFut
    /\ ready = FALSE
    /\ mem = <<>>
    /\ ilen = 0
    /\ buf = <<>>
    /\ buf0 = <<>>
    /\ result = NoResult
    /\ found = "None"
    /\ prevKind = "None"
    /\ created = 0
    /\ opsInCycle = 0
    /\ readsInCycle = 0
    /\ pendings = 0
    /\ afterErr = FALSE
    /\ req = 0
    /\ zeroPoll = FALSE
    /\ got = NoRead
    /\ delivered = <<>>
    /\ dropped = "no"

\* The adapter on its own: no program around it.
NoProgram ==
    /\ tasks = <<>>
    /\ mainTask = [pc |-> "none", spawned |-> 0, joined |-> 0, result |-> "none"]
    /\ stdout = {}

Init == (\E k \in 0..MaxData : Start(Stream(k), MaxErrors)) /\ NoProgram

\* State::Transitional => unreachable!(): the call panics and the slot
\* keeps State::Transitional.
ArmUnreachable(len) ==
    /\ state' = "Transitional"
    /\ buf0' = CallerBuf(len)
    /\ buf' = CallerBuf(len)
    /\ result' = PanicResult
    /\ created' = 0
    /\ got' = NoRead
    /\ UNCHANGED <<data, pos, errBudget, owner, fut, ready, mem, ilen,
                   opsInCycle, readsInCycle, pendings, afterErr, req, zeroPoll,
                   delivered>>

\* Poll::Pending => { *proj.state = State::Pending(fut); Poll::Pending }
ArmPending(len, f, ib, pnd) ==
    LET st == StorePending(f)
    IN  /\ state' = st.state
        /\ owner' = st.owner
        /\ fut' = st.fut
        /\ ready' = FALSE
        /\ mem' = ib.mem
        /\ ilen' = ib.ilen
        /\ buf0' = CallerBuf(len)
        /\ buf' = CallerBuf(len)
        /\ result' = [kind |-> "Pending", n |-> 0, err |-> "none"]
        /\ got' = NoRead
        /\ pendings' = Bump(pnd)
        /\ UNCHANGED <<data, pos, errBudget, delivered>>

\* Poll::Ready((inner, internal_buf, result)) => ..; r is that result
ArmReady(len, ib, pnd, r) ==
    LET m2 == IF r.ok THEN ReadInto(ib.mem, data, pos, r.n) ELSE ib.mem
        n == SetLen(r, ib.ilen)
        st == StoreIdle(r, len)
    IN  /\ data' = data
        /\ pos' = pos + r.n
        /\ errBudget' = IF r.ok THEN errBudget ELSE errBudget - 1
        /\ ready' = FALSE
        /\ buf0' = CallerBuf(len)
        /\ got' = r
        /\ pendings' = pnd
        /\ IF r.ok /\ ~SliceInRange(n, len)
           THEN \* the slice panics: the call unwinds, the tuple
                \* (inner, internal_buf, result) is dropped
                /\ state' = "Transitional"
                /\ owner' = "none"
                /\ fut' = NoFut
                /\ mem' = <<>>
                /\ ilen' = 0
                /\ buf' = CallerBuf(len)
                /\ result' = PanicResult
                /\ delivered' = delivered
           ELSE /\ state' = st.state
                /\ owner' = st.owner
                /\ fut' = st.fut
                /\ mem' = m2
                /\ ilen' = n
                /\ buf' = IF r.ok
                          THEN CopyFromSlice(CallerBuf(len), SubSeq(m2, 1, n), n)
                          ELSE CallerBuf(len)
                /\ result' = ReadyResult(r)
                /\ delivered' = IF result'.kind = "Ok"
                                THEN delivered \o SubSeq(buf', 1, Min(result'.n, len))
                                ELSE delivered

\* fn poll_read(self: Pin<&mut Self>, cx, buf) -> Poll<io::Result<usize>>
\*   len  buf.len()
\*   g    what uninitialised storage holds
\*   rdy0 the delay of a future created by this call is already over
\*   now  the read issued after the delay completes at once
\*   r    what that read returns when it completes in this call
poll_read(len, g, rdy0, now, r) ==
    /\ dropped = "no"
    /\ dropped' = dropped
    /\ UNCHANGED progVars
    /\ found' = state
    /\ prevKind' = result.kind
    /\ IF state = "Transitional"
       THEN /\ r = NoRead
            /\ ArmUnreachable(len)
       ELSE LET isNew == state = "Idle"
                ib == SizeInternalBuf(state, mem, ilen, len, g)
                tk == TakeFuture(state, fut, ib.ilen)
                rdy == IF tk.made = 1 THEN rdy0 ELSE ready
                stage == simple_read(tk.fut.stage, rdy, now)
                issued == tk.fut.stage = "delay" /\ stage # "delay"
                pnd == IF isNew THEN 0 ELSE pendings
            IN  /\ created' = tk.made
                /\ opsInCycle' = (IF isNew THEN 0 ELSE opsInCycle) + tk.made
                /\ readsInCycle' = (IF isNew THEN 0 ELSE readsInCycle)
                                   + (IF issued THEN 1 ELSE 0)
                /\ afterErr' = IF isNew THEN result.kind = "Err" ELSE afterErr
                /\ req' = IF isNew THEN len ELSE req
                /\ zeroPoll' = ((~isNew /\ zeroPoll) \/ len = 0)
                /\ IF stage = "done"
                   THEN /\ r \in ReadOutcomes(tk.fut.req, pos, data, errBudget)
                        /\ ArmReady(len, ib, pnd, r)
                   ELSE /\ r = NoRead
                        /\ ArmPending(len, [tk.fut EXCEPT !.stage = stage], ib, pnd)

\* The timer fires, or the source becomes readable: the parked future is
\* woken (Delay::new(..).await, self.inner.read(buf).await).
Wake ==
    /\ state = "Pending"
    /\ ~ready
    /\ ready' = TRUE
    /\ UNCHANGED <<data, pos, errBudget, state, owner, fut, mem, ilen, buf, buf0,
                   result, found, prevKind, created, opsInCycle, readsInCycle,
                   pendings, afterErr, req, zeroPoll, got, delivered, dropped>>
    /\ UNCHANGED progVars

\* A drop that leaks the boxed future (and what it captured).
DropLeaksFuture(st, f) ==
    [state |-> "Dropped", owner |-> IF st = "Pending" THEN "future" ELSE "none",
     fut |-> f]

\* Drop glue of State: Idle(inner, internal_buf) and Pending(fut) release
\* what they hold, the future with the reader and buffer it captured.
DropGlue(st, f) == [state |-> "Dropped", owner |-> "none", fut |-> NoFut]

\* The consumer drops the adapter; the records of its calls go with it.
Drop ==
    LET d == DropGlue(state, fut)
    IN  /\ dropped = "no"
        /\ dropped' = state
        /\ state' = d.state
        /\ owner' = d.owner
        /\ fut' = d.fut
        /\ ready' = FALSE
        /\ mem' = <<>>
        /\ ilen' = 0
        /\ buf' = <<>>
        /\ buf0' = <<>>
        /\ result' = NoResult
        /\ found' = "None"
        /\ prevKind' = "None"
        /\ created' = 0
        /\ opsInCycle' = 0
        /\ readsInCycle' = 0
        /\ pendings' = 0
        /\ afterErr' = FALSE
        /\ req' = 0
        /\ zeroPoll' = FALSE
        /\ got' = NoRead
        /\ UNCHANGED <<data, pos, errBudget, delivered>>
        /\ UNCHANGED progVars

\* The inputs of one call that bear on it: what fresh storage holds when
\* the buffer grows, whether a delay just started is already over, whether
\* the read issued after the delay completes at once, and what the read
\* returns when the call completes it.
Fresh(len) ==
    IF state = "Idle" /\ Len(mem) < len THEN UninitBytes ELSE {0}

Early == IF state = "Idle" THEN BOOLEAN ELSE {FALSE}

Prompt(rdy0) ==
    IF (state = "Idle" /\ rdy0) \/ (state = "Pending" /\ ready /\ fut.stage = "delay")
    THEN BOOLEAN
    ELSE {TRUE}

Answers(len, rdy0, now) ==
    IF state = "Idle"
    THEN (IF rdy0 /\ now
          THEN ReadOutcomes(len, pos, data, errBudget)
          ELSE {NoRead})
    ELSE IF state = "Pending" /\ ready /\ (fut.stage = "read" \/ now)
    THEN ReadOutcomes(fut.req, pos, data, errBudget)
    ELSE {NoRead}

Poll ==
    \E len \in 0..MaxBuf :
        \E g \in Fresh(len), rdy0 \in Early :
            \E now \in Prompt(rdy0) :
                \E r \in Answers(len, rdy0, now) :
                    poll_read(len, g, rdy0, now, r)

Next == Poll \/ Wake \/ Drop

Spec == Init /\ [][Next]_vars

\* A consumer that keeps the adapter and polls it again after every Pending
\* result, over an operation that is woken whenever it is parked.
LiveNext == Poll \/ Wake

LiveSpec == Init /\ [][LiveNext]_vars /\ WF_vars(Poll) /\ WF_vars(Wake)

\* ------------------------------------------------------------ the scenario
\* A source that fails never and yields one byte per read attempt; the
\* consumer passes a non-empty buffer and polls again only once woken, so
\* every attempt returns Pending once and Ready on the second call.
ScenarioInit == (\E k \in 0..MaxData : Start(Stream(k), 0)) /\ NoProgram

ScenarioPoll ==
    /\ state = "Pending" => ready
    /\ \E len \in 1..MaxBuf :
           \E g \in Fresh(len), r \in Answers(len, FALSE, TRUE) :
               /\ r.n <= 1
               /\ poll_read(len, g, FALSE, TRUE, r)

ScenarioNext == ScenarioPoll \/ Wake

ScenarioSpec == ScenarioInit /\ [][ScenarioNext]_vars

\* -------------------------------------------------------------- the program
\* main spawns one task per file; each task runs hash_file on its own file
\* with its own adapter, buffer and hasher.
Files == 1..NumFiles

\* The files hold 2, 1, 0, 2, 1, 0, .. bytes.
FileSize(t) == (3 - t) % 3

\* Content of the t-th file: no two files share a byte.
FileOf(t) == [i \in 1..FileSize(t) |-> SourceByte(i + 2 * (t - 1))]

NoAdapter ==
    [state |-> "None", owner |-> "none", fut |-> NoFut, ready |-> FALSE,
     mem |-> <<>>, ilen |-> 0, pos |-> 0]

\* SimpleAsyncReader { state: State::Idle(file, Default::default()) }
NewAdapter == [NoAdapter EXCEPT !.state = "Idle", !.owner = "adapter"]

NoTask ==
    [pc |-> "unspawned", ad |-> NoAdapter, buf |-> <<>>, hasher |-> <<>>,
     res |-> NoResult]

Ended == {"done", "failed", "panicked"}

\* A closure that hashes the first file whatever file it was spawned for.
SharedPath(t) == 1

\* let file = file.clone(): each spawned closure owns its own file's path.
ClonedPath(t) == t

\* An update that feeds the whole buffer.
UpdateWholeBuf(h, b, n) == h \o b

\* hasher.update(&buf[..n]); the hasher is the bytes fed to it so far, and
\* the digest stands for exactly these bytes.
HasherUpdate(h, b, n) == h \o SubSeq(b, 1, n)

\* let n = file.read(&mut buf[..]).await?; match n { 0 => break, n => .. }:
\* where the task is after one poll of the read.
ReadLoop(res) ==
    IF res.kind = "Pending" THEN "read"
    ELSE IF res.kind = "Err" THEN "failed"
    ELSE IF res.kind = "Panic" THEN "panicked"
    ELSE IF res.n = 0 THEN "done"
    ELSE "read"

\* A join loop that does not wait for its handles.
HandleNeverWaits(tk) == TRUE

\* handle.await completes once the task has ended.
HandleReady(tk) == tk.pc \in Ended

\* println!("While hashing {}: {}", file.display(), e)
ErrorLine(t) == [file |-> t, kind |-> "error", digest |-> <<>>]

\* print!("{} ", path.display()); the digest in hex; println!()
HashLine(t, h) == [file |-> t, kind |-> "hash", digest |-> h]

\* poll_read on the adapter a of one task, over the file content d and the
\* task's buffer b: the adapter, the buffer and the result after the call.
poll_read_on(a, d, b, g, rdy0, now, r) ==
    LET len == Len(b)
        ib == SizeInternalBuf(a.state, a.mem, a.ilen, len, g)
        tk == TakeFuture(a.state, a.fut, ib.ilen)
        rdy == IF tk.made = 1 THEN rdy0 ELSE a.ready
        stage == simple_read(tk.fut.stage, rdy, now)
        m2 == IF r.ok THEN ReadInto(ib.mem, d, a.pos, r.n) ELSE ib.mem
        n == SetLen(r, ib.ilen)
        gone == [a EXCEPT !.state = "Transitional", !.owner = "none",
                          !.fut = NoFut, !.ready = FALSE]
    IN  IF a.state = "Transitional"
        THEN [ran |-> r = NoRead, ad |-> a, buf |-> b, result |-> PanicResult]
        ELSE IF stage # "done"
        THEN LET st == StorePending([tk.fut EXCEPT !.stage = stage])
             IN  [ran |-> r = NoRead,
                  ad |-> [state |-> st.state, owner |-> st.owner,
                          fut |-> st.fut, ready |-> FALSE, mem |-> ib.mem,
                          ilen |-> ib.ilen, pos |-> a.pos],
                  buf |-> b,
                  result |-> [kind |-> "Pending", n |-> 0, err |-> "none"]]
        ELSE IF r.ok /\ ~SliceInRange(n, len)
        THEN [ran |-> r \in ReadOutcomes(tk.fut.req, a.pos, d, MaxErrors),
              ad |-> [gone EXCEPT !.mem = <<>>, !.ilen = 0, !.pos = a.pos + r.n],
              buf |-> b, result |-> PanicResult]
        ELSE LET st == StoreIdle(r, len)
             IN  [ran |-> r \in ReadOutcomes(tk.fut.req, a.pos, d, MaxErrors),
                  ad |-> [state |-> st.state, owner |-> st.owner,
                          fut |-> st.fut, ready |-> FALSE, mem |-> m2,
                          ilen |-> n, pos |-> a.pos + r.n],
                  buf |-> IF r.ok
                          THEN CopyFromSlice(b, SubSeq(m2, 1, n), n)
                          ELSE b,
                  result |-> ReadyResult(r)]

\* hash_file returns: the adapter, the buffer and the hasher are dropped;
\* the record keeps what the task fed to its hasher and its last result.
EndTask(tk, pc, a, h, res) ==
    LET d == DropGlue(a.state, a.fut)
    IN  [pc |-> pc,
         ad |-> [NoAdapter EXCEPT !.state = d.state, !.owner = d.owner,
                                  !.fut = d.fut, !.pos = a.pos],
         buf |-> <<>>, hasher |-> h, res |-> res]

MainInit ==
    /\ Start(<<>>, 0)
    /\ tasks = [t \in Files |-> NoTask]
    /\ mainTask = [pc |-> "spawn", spawned |-> 0, joined |-> 0, result |-> "none"]
    /\ stdout = {}

\* for file in &args.files { .. async_std::task::spawn(..); handles.push(..) }
MainSpawn ==
    /\ mainTask.pc = "spawn"
    /\ LET t == mainTask.spawned + 1
       IN  /\ tasks' = [tasks EXCEPT ![t].pc = "open"]
           /\ mainTask' = [mainTask EXCEPT
                               !.spawned = t,
                               !.pc = IF t = NumFiles THEN "join" ELSE "spawn"]
    /\ UNCHANGED <<adapterVars, stdout>>

\* for handle in handles { handle.await; }
MainJoin ==
    /\ mainTask.pc = "join"
    /\ mainTask.joined < NumFiles
    /\ HandleReady(tasks[mainTask.joined + 1])
    /\ mainTask' = [mainTask EXCEPT !.joined = @ + 1]
    /\ UNCHANGED <<adapterVars, tasks, stdout>>

\* Ok(())
MainReturn ==
    /\ mainTask.pc = "join"
    /\ mainTask.joined = NumFiles
    /\ mainTask' = [mainTask EXCEPT !.pc = "returned", !.result = "Ok"]
    /\ UNCHANGED <<adapterVars, tasks, stdout>>

\* hash_file up to its loop: File::open(path).await?, the adapter, the
\* hasher and the zeroed buffer; an open error ends the task with a report.
TaskOpen(t) ==
    /\ tasks[t].pc = "open"
    /\ \E ok \in BOOLEAN :
           IF ok
           THEN /\ tasks' = [tasks EXCEPT ![t] =
                                [pc |-> "read", ad |-> NewAdapter,
                                 buf |-> CallerBuf(BufLen), hasher |-> <<>>,
                                 res |-> NoResult]]
                /\ stdout' = stdout
           ELSE /\ tasks' = [tasks EXCEPT ![t] =
                                EndTask(@, "failed", NoAdapter, <<>>,
                                        [kind |-> "Err", n |-> 0, err |-> "Open"])]
                /\ stdout' = stdout \cup {ErrorLine(t)}
    /\ UNCHANGED <<adapterVars, mainTask>>

\* The inputs of one call on the adapter a that bear on it (as Fresh, Early,
\* Prompt and Answers above).
FreshOn(a, b) ==
    IF a.state = "Idle" /\ Len(a.mem) < Len(b) THEN UninitBytes ELSE {0}

EarlyOn(a) == IF a.state = "Idle" THEN BOOLEAN ELSE {FALSE}

PromptOn(a, rdy0) ==
    IF (a.state = "Idle" /\ rdy0)
       \/ (a.state = "Pending" /\ a.ready /\ a.fut.stage = "delay")
    THEN BOOLEAN
    ELSE {TRUE}

AnswersOn(a, d, b, rdy0, now) ==
    IF a.state = "Idle"
    THEN (IF rdy0 /\ now
          THEN ReadOutcomes(Len(b), a.pos, d, MaxErrors)
          ELSE {NoRead})
    ELSE IF a.state = "Pending" /\ a.ready /\ (a.fut.stage = "read" \/ now)
    THEN ReadOutcomes(a.fut.req, a.pos, d, MaxErrors)
    ELSE {NoRead}

\* One poll of file.read(&mut buf[..]) in the loop of hash_file, and what
\* the loop and the spawned closure do with its result.
TaskPoll(t) ==
    LET tk == tasks[t]
        a == tk.ad
    IN  /\ tk.pc = "read"
        /\ \E g \in FreshOn(a, tk.buf), rdy0 \in EarlyOn(a) :
           \E now \in PromptOn(a, rdy0) :
           \E r \in AnswersOn(a, FileOf(ClonedPath(t)), tk.buf, rdy0, now) :
               LET o == poll_read_on(a, FileOf(ClonedPath(t)), tk.buf,
                                     g, rdy0, now, r)
                   pc == ReadLoop(o.result)
                   h == IF o.result.kind = "Ok" /\ o.result.n > 0
                        THEN HasherUpdate(tk.hasher, o.buf, o.result.n)
                        ELSE tk.hasher
               IN  /\ o.ran
                   /\ tasks' = [tasks EXCEPT ![t] =
                                   IF pc = "read"
                                   THEN [pc |-> pc, ad |-> o.ad, buf |-> o.buf,
                                         hasher |-> h, res |-> o.result]
                                   ELSE EndTask(@, pc, o.ad, h, o.result)]
                   /\ stdout' = IF pc = "done" THEN stdout \cup {HashLine(t, h)}
                                ELSE IF pc = "failed"
                                THEN stdout \cup {ErrorLine(t)}
                                ELSE stdout
        /\ UNCHANGED <<adapterVars, mainTask>>

\* The timer of a task fires, or its file becomes readable.
TaskWake(t) ==
    /\ tasks[t].pc = "read"
    /\ tasks[t].ad.state = "Pending"
    /\ ~tasks[t].ad.ready
    /\ tasks' = [tasks EXCEPT ![t].ad.ready = TRUE]
    /\ UNCHANGED <<adapterVars, mainTask, stdout>>

MainNext ==
    \/ MainSpawn
    \/ MainJoin
    \/ MainReturn
    \/ \E t \in Files : TaskOpen(t)
    \/ \E t \in Files : TaskPoll(t)
    \/ \E t \in Files : TaskWake(t)

MainSpec == MainInit /\ [][MainNext]_vars

\* The executor keeps running: a step that can be taken is taken.
FairMainSpec == MainSpec /\ WF_vars(MainNext)

\* ------------------------------------------------------------- properties
Returned == result.kind \in {"Ok", "Err"}

Completed == got # NoRead

\* C1: the bytes copied to the caller by the Ready(Ok(n)) results so far are,
\* in order, exactly the bytes the source has handed out: after every
\* result they are data[1..pos], and each chunk is the next n source bytes.
C1_SameBytesAsDirectReads ==
    /\ delivered = SubSeq(data, 1, Len(delivered))
    /\ state \in {"Idle", "Pending"} => delivered = SubSeq(data, 1, pos)
    /\ result.kind = "Ok" =>
          /\ result.n <= Len(buf)
          /\ SubSeq(buf, 1, result.n) = SubSeq(data, pos - result.n + 1, pos)

\* Two bytes arrive in one chunk after an earlier chunk and a Pending result.
C1_Witness ==
    /\ result.kind = "Ok"
    /\ result.n = 2
    /\ Len(delivered) = 3
    /\ pendings >= 1

\* C2: when the last call returned Ready the slot holds Idle, when it
\* returned Pending the slot holds Pending, and the slot never holds
\* Transitional after a call that returned.
C2_StateShape ==
    /\ Returned => state = "Idle"
    /\ result.kind = "Pending" => state = "Pending"
    /\ (Returned \/ result.kind = "Pending") => state # "Transitional"

\* A Pending result in a cycle that follows a completed one.
C2_Witness ==
    /\ result.kind = "Pending"
    /\ state = "Pending"
    /\ found = "Pending"
    /\ Len(delivered) >= 1

\* C3: a call that finds Pending creates no future, and from the call that
\* starts a read to the call that returns Ready for it exactly one future
\* is created and exactly one read of the source is issued.
C3_PendingReusesFuture ==
    /\ found = "Pending" => created = 0
    /\ opsInCycle <= 1
    /\ readsInCycle <= 1
    /\ Returned => (opsInCycle = 1 /\ readsInCycle = 1)

\* A read completes after the cycle returned Pending at least PendCap times.
C3_Witness ==
    /\ result.kind = "Ok"
    /\ result.n >= 1
    /\ found = "Pending"
    /\ pendings = PendCap
    /\ readsInCycle = 1

\* C4: a call creates a future exactly when it finds Idle, and then one;
\* a future exists only while the slot holds Pending, so at most one read
\* is in flight; after a Ready result (Ok or Err) nothing is in flight.
C4_ReadsBeginOnlyFromIdle ==
    /\ found = "Idle" => created = 1
    /\ found \in {"Pending", "Transitional"} => created = 0
    /\ opsInCycle <= 1
    /\ (fut # NoFut) <=> (state = "Pending")
    /\ Returned => (fut = NoFut /\ state = "Idle" /\ ~ready)

\* An error was returned by a call that found Pending; nothing is in flight.
C4_Witness ==
    /\ result.kind = "Err"
    /\ found = "Pending"
    /\ created = 0
    /\ fut = NoFut
    /\ pos < Len(data)

\* C5: whenever the read finishes with Ok(n) inside a call, n is at most
\* the length of the buffer passed to that call.
C5_CopyInBounds ==
    (Completed /\ got.ok) => got.n <= Len(buf0)

\* C6: when the read finishes with Ok(n), the call returns Ready(Ok(n)), the
\* first n bytes of the caller's buffer are the n bytes the read stored at
\* the front of internal_buf, and internal_buf.len() is n.
C6_OkCopiesFirstN ==
    (Completed /\ got.ok) =>
        /\ result = [kind |-> "Ok", n |-> got.n, err |-> "none"]
        /\ got.n <= Len(buf)
        /\ SubSeq(buf, 1, got.n) = SubSeq(mem, 1, got.n)
        /\ SubSeq(buf, 1, got.n) = SubSeq(data, pos - got.n + 1, pos)
        /\ ilen = got.n

\* C7: when the read finishes with an error, the call returns Ready(Err)
\* with that error, the caller's buffer is as it was before the call,
\* internal_buf.len() is 0 and the slot holds Idle with the reader.
C7_ErrLeavesBufferAlone ==
    (Completed /\ ~got.ok) =>
        /\ result = [kind |-> "Err", n |-> 0, err |-> got.err]
        /\ buf = buf0
        /\ ilen = 0
        /\ state = "Idle"
        /\ owner = "adapter"

\* A read into a buffer of two bytes fails after a Pending result, with
\* bytes of an earlier read still in the storage.
C7_Witness ==
    /\ Completed
    /\ ~got.ok
    /\ found = "Pending"
    /\ Len(buf0) = 2
    /\ Len(delivered) >= 1
    /\ Len(mem) >= 1

\* C8: the call after a Ready(Err) finds Idle with the reader, creates one
\* future and sizes internal_buf to its own buffer; the bytes the cycle
\* then delivers are the source bytes that follow the ones delivered
\* before: none is delivered twice, none is left over from the failure.
C8_FreshReadAfterErr ==
    /\ (prevKind = "Err") =>
          /\ found = "Idle"
          /\ created = 1
          /\ owner \in {"adapter", "future"}
          /\ result.kind = "Pending" => (ilen = Len(buf0) /\ fut.req = Len(buf0))
    /\ (afterErr /\ result.kind = "Ok") =>
          /\ result.n <= Len(buf)
          /\ SubSeq(buf, 1, result.n)
               = SubSeq(data, Len(delivered) - result.n + 1, Len(delivered))
          /\ Len(delivered) = pos

\* Bytes were delivered, then a read failed, then the next cycle delivered
\* the byte that follows.
C8_Witness ==
    /\ afterErr
    /\ result.kind = "Ok"
    /\ result.n = 1
    /\ Len(delivered) = 2
    /\ found = "Pending"

Scenario == <<170, 187, 204>>

\* C10: with the source holding 0xAA 0xBB 0xCC and yielding one byte per
\* attempt, every attempt returning Pending once, each Ready result is
\* Ok(1) with the next of the three bytes, in order, until all three are
\* delivered and Ok(0) from then on; the slot holds Idle after each.
C10_EndToEnd ==
    (data = Scenario /\ Returned) =>
        /\ state = "Idle"
        /\ pendings = 1
        /\ result.kind = "Ok"
        /\ delivered = SubSeq(Scenario, 1, Len(delivered))
        /\ result.n = 1 => buf[1] = Scenario[Len(delivered)]
        /\ result.n = 0 <=> (got.n = 0 /\ Len(delivered) = 3 /\ pos = 3)
        /\ result.n \in {0, 1}

\* The zero-byte read that follows the three bytes.
C10_Witness ==
    /\ data = Scenario
    /\ result = [kind |-> "Ok", n |-> 0, err |-> "none"]
    /\ delivered = Scenario
    /\ pendings = 1
    /\ state = "Idle"

\* C12: the reader and internal_buf have exactly one holder in every state
\* of a live adapter:
\* the adapter exactly while the slot holds Idle, the stored future exactly
\* while it holds Pending.
C12_SingleHolder ==
    dropped = "no" =>
        /\ owner \in {"adapter", "future"}
        /\ (owner = "adapter") <=> (state = "Idle")
        /\ (owner = "future") <=> (state = "Pending")

\* C15: while the slot holds Idle, internal_buf.len() is the byte count of
\* the last completed read: n after Ready(Ok(n)), 0 after Ready(Err), 0 for
\* a fresh adapter, and never more than the size requested for that read.
C15_IdleLength ==
    state = "Idle" =>
        /\ result.kind = "Ok" => ilen = result.n
        /\ result.kind = "Err" => ilen = 0
        /\ result.kind = "None" => ilen = 0
        /\ ilen <= req

\* A read into two bytes of room returned one byte.
C15_Witness ==
    /\ state = "Idle"
    /\ result.kind = "Ok"
    /\ result.n = 1
    /\ req = 2
    /\ ilen = 1

\* C16: the call that finds Idle sets internal_buf.len() to its buffer's
\* length and starts the read over that many bytes; while the cycle lasts
\* the request stays that of its first call, whatever later calls pass, and
\* the read returns at most that many bytes.
C16_RequestFixedByFirstCall ==
    /\ (found = "Idle" /\ result.kind = "Pending") =>
          (ilen = Len(buf0) /\ fut.req = Len(buf0) /\ req = Len(buf0))
    /\ state = "Pending" => (fut.req = req /\ ilen = req)
    /\ Completed => got.n <= req

\* A later call of a cycle passed a buffer of another length than the
\* first one and the cycle is still pending.
C16_Witness ==
    /\ state = "Pending"
    /\ found = "Pending"
    /\ req = 1
    /\ Len(buf0) = 2
    /\ fut.req = 1

\* C19: no call finds the slot holding Transitional (the unreachable!() arm
\* is never executed).
C19_NeverFindsTransitional ==
    found # "Transitional"

\* C20: a call that does not return Ready(Ok(n)) leaves the caller's buffer
\* as it was; after Ready(Ok(n)) the buffer keeps its length and every
\* position beyond n keeps its byte.
C20_BufferFrame ==
    /\ result.kind # "Ok" => buf = buf0
    /\ result.kind = "Ok" =>
          /\ Len(buf) = Len(buf0)
          /\ \A i \in 1..Len(buf) : i > result.n => buf[i] = buf0[i]

\* One byte arrived in a buffer of two.
C20_Witness ==
    /\ result.kind = "Ok"
    /\ result.n = 1
    /\ Len(buf) = 2
    /\ buf[1] # buf0[1]

\* C13: once the adapter is dropped with a read in flight, the future, the
\* reader and internal_buf are all gone: no holder is left, no storage, no
\* pending wake-up, and from then on the source is never read again.
C13_DropReleasesAll ==
    /\ [](dropped = "Pending" =>
            /\ state = "Dropped"
            /\ owner = "none"
            /\ fut = NoFut
            /\ mem = <<>>
            /\ ~ready)
    /\ [][dropped # "no" => (pos' = pos /\ fut' = NoFut)]_vars

\* The adapter was dropped with a read in flight and source data left.
C13_Witness ==
    /\ dropped = "Pending"
    /\ state = "Dropped"
    /\ Len(delivered) >= 1
    /\ pos < Len(data)

\* C17: under a consumer that polls again after every Pending result and an
\* operation that eventually completes, a Pending adapter eventually returns
\* Ready and is Idle again; it never stays out of Idle forever.
C17_PendingLeadsToIdle == (state = "Pending") ~> (state = "Idle" /\ Returned)

\* C11: whatever the interleaving of the tasks' steps, the bytes each task
\* has fed to its hasher are a prefix of its own file (all of the file read
\* so far between reads), a task that ends well has fed and printed exactly
\* its own file, and a step of one task changes no other task.
C11_DigestsIndependent ==
    /\ [](\A t \in Files :
            LET tk == tasks[t]
            IN  /\ tk.hasher = SubSeq(FileOf(t), 1, Len(tk.hasher))
                /\ tk.pc = "read" => Len(tk.hasher) = tk.ad.pos
                /\ tk.pc = "done" =>
                      /\ tk.hasher = FileOf(t)
                      /\ HashLine(t, FileOf(t)) \in stdout)
    /\ [][\A t, u \in Files :
            (t # u /\ tasks'[t] # tasks[t]) => tasks'[u] = tasks[u]]_vars

\* The first two tasks are in the middle of their files, each with a read in
\* flight, and the first has fed a chunk already.
C11_Witness ==
    /\ \A t \in 1..2 : tasks[t].pc = "read" /\ tasks[t].ad.state = "Pending"
    /\ tasks[1].hasher = SubSeq(FileOf(1), 1, 1)
    /\ tasks[2].ad.pos = 0

\* C14: a task that fails (at open or on a read error) prints one report
\* naming its own file and touches no other task; main returns only after
\* every task has ended, it does return, and its result is Ok.
C14_FailureStaysLocal ==
    /\ [](mainTask.pc = "returned" =>
            /\ mainTask.result = "Ok"
            /\ \A t \in Files : tasks[t].pc \in {"done", "failed"})
    /\ [](\A t \in Files : ErrorLine(t) \in stdout <=> tasks[t].pc = "failed")
    /\ [][\A t \in Files :
            (tasks'[t].pc = "failed" /\ tasks[t].pc # "failed") =>
                /\ \A u \in Files \ {t} : tasks'[u] = tasks[u]
                /\ mainTask' = mainTask
                /\ stdout' = stdout \cup {ErrorLine(t)}]_vars
    /\ <>(mainTask.pc = "returned")

\* main has returned after the second file failed on a read and the first
\* was hashed to its end.
C14_Witness ==
    /\ mainTask.pc = "returned"
    /\ tasks[2].pc = "failed"
    /\ tasks[2].res.err \in IoErrors
    /\ tasks[1].pc = "done"
    /\ tasks[1].hasher = FileOf(1)
    /\ {ErrorLine(2), HashLine(1, FileOf(1))} \subseteq stdout

\* C18: a read that returns n > 0 appends the first n bytes of the buffer
\* to the hasher and nothing else does; the loop ends at the first Ok(0)
\* (done) or error (failed), after which the task does nothing more; and
\* under a fair executor every task's loop ends.
C18_ReadLoop ==
    /\ [](\A t \in Files :
            LET tk == tasks[t]
            IN  /\ tk.pc = "done" => (tk.res.kind = "Ok" /\ tk.res.n = 0)
                /\ tk.pc = "failed" => tk.res.kind = "Err"
                /\ tk.pc = "read" =>
                      (tk.res.kind \in {"None", "Pending"}
                       \/ (tk.res.kind = "Ok" /\ tk.res.n > 0)))
    /\ [][\A t \in Files :
            LET old == tasks[t]
                new == tasks'[t]
                n == new.ad.pos - old.ad.pos
            IN  /\ old.pc \in Ended => new = old
                /\ n > 0 =>
                      /\ new.res = [kind |-> "Ok", n |-> n, err |-> "none"]
                      /\ new.hasher = old.hasher \o SubSeq(new.buf, 1, n)
                /\ n = 0 => new.hasher = old.hasher]_vars
    /\ <>(\A t \in Files : tasks[t].pc \in Ended)

\* A file was read in two chunks and its loop ended on Ok(0).
C18_Witness ==
    \E t \in Files :
        /\ tasks[t].pc = "done"
        /\ tasks[t].res.n = 0
        /\ Len(tasks[t].hasher) = 2
        /\ HashLine(t, tasks[t].hasher) \in stdout

====
